---- MODULE Spec2Model ----
(***************************************************************************)
(* Model of too-long-for-linux: the scan of a directory tree for names of  *)
(* 255 or more UTF-8 bytes and paths of 4096 or more, and the remediation  *)
(* of overlong names (too-long-for-linux.py), together with the earlier    *)
(* scan-only program (too-long-for-linux-edit.py).                         *)
(*                                                                         *)
(* A Python str is a sequence of characters; a character is a TLA+ string  *)
(* whose UTF-8 width is given by CharWidth.  bytes are a sequence of       *)
(* <<character, k>>: byte k (0 = lead byte, k > 0 = continuation byte) of  *)
(* the character's encoding.                                               *)
(***************************************************************************)
EXTENDS Integers, Sequences, FiniteSets, TLC

(***************************************************************************)
(* Strings, UTF-8 encoding and decoding                                    *)
(***************************************************************************)

\* "D2", "E3", "G4" stand for a character of 2, 3 and 4 bytes (for example a
\* Cyrillic letter, the euro sign, a musical clef); every other character is ASCII.
CharWidth(c) == CASE c = "D2" -> 2 [] c = "E3" -> 3 [] c = "G4" -> 4 [] OTHER -> 1

Rep(c, n) == [i \in 1..n |-> c]

Max(S) == CHOOSE x \in S : \A y \in S : y <= x

\* str.encode("utf-8") of the characters lo..hi of s (halving keeps the
\* evaluation depth logarithmic in the length of the name).
RECURSIVE EncodeRange(_, _, _)
EncodeRange(s, lo, hi) ==
    IF lo > hi THEN <<>>
    ELSE IF lo = hi THEN [k \in 1..CharWidth(s[lo]) |-> <<s[lo], k - 1>>]
    ELSE LET mid == (lo + hi) \div 2
         IN  EncodeRange(s, lo, mid) \o EncodeRange(s, mid + 1, hi)

encode(s) == EncodeRange(s, 1, Len(s))

\* byte & 0xC0 == 0x80
IsContinuation(byte) == byte[2] > 0

\* A whole character starts at byte i of b: a lead byte followed by all of its
\* continuation bytes.
CompleteAt(b, i) ==
    /\ b[i][2] = 0
    /\ i + CharWidth(b[i][1]) - 1 <= Len(b)
    /\ \A k \in 1..(CharWidth(b[i][1]) - 1) : b[i + k] = <<b[i][1], k>>

\* bytes.decode("utf-8", "ignore"): the characters that are whole in b, in
\* order; a lead byte cut off from its continuation bytes and a continuation
\* byte without its lead byte are dropped.
RECURSIVE DecodeRange(_, _, _)
DecodeRange(b, lo, hi) ==
    IF lo > hi THEN <<>>
    ELSE IF lo = hi THEN (IF CompleteAt(b, lo) THEN <<b[lo][1]>> ELSE <<>>)
    ELSE LET mid == (lo + hi) \div 2
         IN  DecodeRange(b, lo, mid) \o DecodeRange(b, mid + 1, hi)

decode_ignore(b) == DecodeRange(b, 1, Len(b))

RECURSIVE WidthRange(_, _, _)
WidthRange(s, lo, hi) ==
    IF lo > hi THEN 0
    ELSE IF lo = hi THEN CharWidth(s[lo])
    ELSE LET mid == (lo + hi) \div 2
         IN  WidthRange(s, lo, mid) + WidthRange(s, mid + 1, hi)

count_bytes(string) == WidthRange(string, 1, Len(string))

\* string.encode("utf-8")[:max_length].decode("utf-8", "ignore")
safe_truncate(string, max_length) ==
    IF count_bytes(string) <= max_length THEN string
    ELSE decode_ignore(SubSeq(encode(string), 1, max_length))

\* name.rfind("."), 1-based; 0 when there is no dot
RFindDot(name) ==
    LET dots == {i \in 1..Len(name) : name[i] = "."}
    IN  IF dots = {} THEN 0 ELSE Max(dots)

\* pathlib: the suffix starts at the last dot unless that dot is the first or
\* the last character of the name.
HasSuffix(name) == 1 < RFindDot(name) /\ RFindDot(name) < Len(name)

PathSuffix(name) ==
    IF HasSuffix(name) THEN SubSeq(name, RFindDot(name), Len(name)) ELSE <<>>

PathStem(name) ==
    IF HasSuffix(name) THEN SubSeq(name, 1, RFindDot(name) - 1) ELSE name

\* str[:n] counts characters, not bytes
Chars(s, n) == SubSeq(s, 1, IF Len(s) < n THEN Len(s) ELSE n)

\* f"{counter}": the decimal digits of a positive counter
RECURSIVE Digits(_)
Digits(n) ==
    LET d == <<"0", "1", "2", "3", "4", "5", "6", "7", "8", "9">>[(n % 10) + 1]
    IN  IF n < 10 THEN <<d>> ELSE Append(Digits(n \div 10), d)

(***************************************************************************)
(* Limits                                                                  *)
(***************************************************************************)

\* scan_directory: a name of NameLimit bytes or more is reported
NameLimit == 255

\* scan_directory: a path of PathLimit bytes or more is reported
PathLimit == 4096

\* max_length of split_filename, split_directory_name, create_safe_directory
MaxLength == 255

\* max_length of safe_truncate
TruncateLength == 250

\* stem[:200] of the numbered candidates
StemChars == 200

\* part2 of a name that is not split
None == <<"None">>

(***************************************************************************)
(* Splitting a name                                                        *)
(***************************************************************************)

\* while split_point > 0 and (encoded[split_point] & 0xC0 == 0x80): split_point -= 1
\* (encoded[split_point] is 0-based: the first byte of the second half)
RECURSIVE BackToBoundary(_, _)
BackToBoundary(encoded, split_point) ==
    IF split_point > 0 /\ IsContinuation(encoded[split_point + 1])
    THEN BackToBoundary(encoded, split_point - 1)
    ELSE split_point

SplitPoint(encoded) ==
    LET p == BackToBoundary(encoded, Len(encoded) \div 2)
    IN  IF p = 0 THEN Len(encoded) \div 2 ELSE p

TruncateHalf(part) ==
    IF count_bytes(part) > 255 THEN safe_truncate(part, TruncateLength) ELSE part

\* The two halves of base (with suffix re-attached to the second) before the
\* halves are truncated.
RawHalves(base, suffix) ==
    LET encoded == encode(base)
        split_point == SplitPoint(encoded)
    IN  << decode_ignore(SubSeq(encoded, 1, split_point)),
           decode_ignore(SubSeq(encoded, split_point + 1, Len(encoded))) \o suffix >>

split_filename(filename) ==
    IF count_bytes(filename) <= MaxLength THEN <<filename, None>>
    ELSE IF count_bytes(PathStem(filename)) > 1
         THEN LET h == RawHalves(PathStem(filename), PathSuffix(filename))
              IN  <<TruncateHalf(h[1]), TruncateHalf(h[2])>>
         ELSE <<safe_truncate(filename, TruncateLength), None>>

split_directory_name(dirname) ==
    IF count_bytes(dirname) <= MaxLength THEN <<dirname, None>>
    ELSE IF count_bytes(dirname) > 1
         THEN LET h == RawHalves(dirname, <<>>)
              IN  <<TruncateHalf(h[1]), TruncateHalf(h[2])>>
         ELSE <<safe_truncate(dirname, TruncateLength), None>>

\* The numbered candidate of the allocation loops:
\* f"{stem[:200]}_{counter}{suffix}", truncated when longer than 255 bytes.
\* create_safe_directory and the directory fixes use no suffix.
Candidate(name, counter, with_suffix) ==
    LET c == Chars(PathStem(name), StemChars) \o <<"_">> \o Digits(counter)
                \o (IF with_suffix THEN PathSuffix(name) ELSE <<>>)
    IN  IF count_bytes(c) > 255 THEN safe_truncate(c, TruncateLength) ELSE c

(***************************************************************************)
(* The filesystem                                                          *)
(*                                                                         *)
(* A path is the sequence of names below the scanned directory, <<>> being *)
(* the scanned directory itself.  A tree maps each existing path to its    *)
(* entry: the kind, an identity that follows the entry when it is moved,   *)
(* and whether a directory can be listed.  The tree holds files and        *)
(* directories of one filesystem: symbolic links and mount points are not  *)
(* modelled, so that shutil.move is a rename.                              *)
(***************************************************************************)

VARIABLES fs,          \* the tree
          rootLen,     \* byte length of str(Path(directory))
          pc,          \* position of the running program
          problems,    \* result of the last scan_directory: the problems
          total,       \* result of the last scan_directory: the count
          scanErrors,  \* unreadable directories the scan has reported
          queue,       \* the violations handed to fix_long_name
          idx,         \* position in queue of the current call
          fixed_count, \* apply_fixes: fixes that returned
          results,     \* outcome of each finished fix_long_name call
          fx,          \* locals of the fix_long_name call in progress
          pre,         \* the tree when the call in progress began
          nextId,      \* identity of the next entry created
          faults       \* operations the operating system has refused so far

vars == <<fs, rootLen, pc, problems, total, scanErrors, queue, idx,
          fixed_count, results, fx, pre, nextId, faults>>

Root == <<>>

Parent(p) == SubSeq(p, 1, Len(p) - 1)

Name(p) == p[Len(p)]

\* base_path / name; joining the empty name gives base_path itself
Join(base_path, name) == IF name = <<>> THEN base_path ELSE Append(base_path, name)

IsPrefix(d, p) == Len(d) <= Len(p) /\ SubSeq(p, 1, Len(d)) = d

\* a slip: Path.is_dir() in the place of Path.exists()
exists_only_directories(f, p) == p \in DOMAIN f /\ f[p].kind = "dir"

exists(f, p) == p \in DOMAIN f

is_dir(f, p) == p \in DOMAIN f /\ f[p].kind = "dir"

Children(f, d) == {p \in DOMAIN f : Len(p) = Len(d) + 1 /\ IsPrefix(d, p)}

\* The directory listing, in the order the entries were created.
RECURSIVE InOrder(_, _)
InOrder(f, S) ==
    IF S = {} THEN <<>>
    ELSE LET p == CHOOSE q \in S : \A r \in S : f[q].id <= f[r].id
         IN  <<p>> \o InOrder(f, S \ {p})

Listing(f, d) == InOrder(f, Children(f, d))

\* count_bytes(str(full_path)): the scanned directory, then a separator and
\* a name for each component.
RECURSIVE ComponentBytes(_)
ComponentBytes(p) ==
    IF p = <<>> THEN 0 ELSE 1 + count_bytes(Head(p)) + ComponentBytes(Tail(p))

PathBytes(rl, p) == rl + ComponentBytes(p)

(***************************************************************************)
(* scan_directory                                                          *)
(***************************************************************************)

Problem(type, length, path) == [type |-> type, length |-> length, path |-> path]

\* too-long-for-linux.py: the two checks of one entry
EntryProblems(rl, p, isdir) ==
    (IF count_bytes(Name(p)) >= NameLimit
     THEN <<Problem(IF isdir THEN "DIR_NAME" ELSE "FILE_NAME", count_bytes(Name(p)), p)>>
     ELSE <<>>)
    \o
    (IF PathBytes(rl, p) >= PathLimit
     THEN <<Problem(IF isdir THEN "DIR_PATH" ELSE "FILE_PATH", PathBytes(rl, p), p)>>
     ELSE <<>>)

\* too-long-for-linux-edit.py: the two checks of one entry
EntryProblemsEdit(rl, p, isdir) ==
    (IF (IF isdir THEN count_bytes(Name(p)) > NameLimit
                  ELSE count_bytes(Name(p)) >= NameLimit)
     THEN <<Problem(IF isdir THEN "DIR_NAME" ELSE "FILE_NAME", count_bytes(Name(p)), p)>>
     ELSE <<>>)
    \o
    (IF (IF isdir THEN PathBytes(rl, p) > PathLimit
                  ELSE PathBytes(rl, p) >= PathLimit)
     THEN <<Problem(IF isdir THEN "DIR_PATH" ELSE "FILE_PATH", PathBytes(rl, p), p)>>
     ELSE <<>>)

RECURSIVE ConcatAll(_)
ConcatAll(ss) == IF ss = <<>> THEN <<>> ELSE Head(ss) \o ConcatAll(Tail(ss))

\* os.walk(top), top-down and without onerror: a directory that cannot be
\* listed yields nothing and raises nothing; otherwise its directories, then
\* its files, then the walk of each of its directories.  The result is the
\* sequence of visited entries <<path, isdir>>.
RECURSIVE Walk(_, _)
Walk(f, top) ==
    IF ~f[top].readable THEN <<>>
    ELSE LET l == Listing(f, top)
             dirs == SelectSeq(l, LAMBDA p : f[p].kind = "dir")
             files == SelectSeq(l, LAMBDA p : f[p].kind # "dir")
         IN  [i \in 1..Len(dirs) |-> <<dirs[i], TRUE>>]
             \o [i \in 1..Len(files) |-> <<files[i], FALSE>>]
             \o ConcatAll([i \in 1..Len(dirs) |-> Walk(f, dirs[i])])

scan_directory(f, rl) ==
    LET w == Walk(f, Root)
    IN  [problems |-> ConcatAll([i \in 1..Len(w) |-> EntryProblems(rl, w[i][1], w[i][2])]),
         current_count |-> Len(w)]

scan_directory_edit(f, rl) ==
    LET w == Walk(f, Root)
    IN  [problems |-> ConcatAll([i \in 1..Len(w) |-> EntryProblemsEdit(rl, w[i][1], w[i][2])]),
         current_count |-> Len(w)]

(***************************************************************************)
(* Filesystem operations used by the fixes                                 *)
(***************************************************************************)

Ancestors(p) == {SubSeq(p, 1, n) : n \in 0..Len(p)}

\* Path.mkdir(parents=True, exist_ok=True) creates p and every missing
\* ancestor; it fails when p or an ancestor exists and is not a directory.
mkdir_fails(f, p) == \E a \in Ancestors(p) : a \in DOMAIN f /\ f[a].kind # "dir"

mkdir_parents(f, p, id) ==
    [q \in DOMAIN f \cup Ancestors(p) |->
        IF q \in DOMAIN f THEN f[q]
        ELSE [kind |-> "dir", id |-> id + Len(q), readable |-> TRUE]]

\* shutil.move(src, dst) within one filesystem: into dst when dst is a
\* directory, else os.rename(src, dst), which replaces an existing file.
real_dst(f, src, dst) == IF is_dir(f, dst) THEN Join(dst, Name(src)) ELSE dst

move_fails(f, src, dst) ==
    \/ ~exists(f, src)
    \/ src = Root
    \/ is_dir(f, dst) /\ exists(f, real_dst(f, src, dst))
    \/ ~is_dir(f, Parent(real_dst(f, src, dst)))
    \/ is_dir(f, src) /\ IsPrefix(src, real_dst(f, src, dst))
    \/ is_dir(f, src) /\ exists(f, real_dst(f, src, dst))

shutil_move(f, src, dst) ==
    LET rd == real_dst(f, src, dst)
        moved == {p \in DOMAIN f : IsPrefix(src, p)}
        to(p) == rd \o SubSeq(p, Len(src) + 1, Len(p))
        kept == (DOMAIN f \ moved) \ {rd}
    IN  [q \in kept \cup {to(p) : p \in moved} |->
            IF q \in kept THEN f[q] ELSE f[CHOOSE p \in moved : to(p) = q]]

\* Path.rmdir() removes an empty directory and fails otherwise;
\* contextlib.suppress(OSError) drops the failure.
rmdir_suppressed(f, p) ==
    IF is_dir(f, p) /\ Children(f, p) = {} /\ p # Root
    THEN [q \in DOMAIN f \ {p} |-> f[q]]
    ELSE f

\* Path.iterdir() lists the children at once; it fails when p is no
\* directory or cannot be listed.
iterdir_fails(f, p) == ~(is_dir(f, p) /\ f[p].readable)

\* a slip: a listing that misses its first entry
iterdir_misses_one(f, p) ==
    IF Listing(f, p) = <<>> THEN <<>> ELSE Tail(Listing(f, p))

iterdir(f, p) == Listing(f, p)

(***************************************************************************)
(* Initial trees                                                           *)
(***************************************************************************)

\* a directory of the initial tree has the first nKids <= MaxKids children
MaxKids == 2

\* the first nColl <= MaxColl names an allocation tries are taken
MaxColl == 3

\* the allocation loops are followed up to this counter
MaxCounter == 5

\* the operating system refuses at most this many operations of a run
\* (permission denied, disk full), besides those that cannot succeed
MaxFaults == 1

\* str(Path(directory)) is so long that a name of 255 bytes right below it
\* makes a path of 4095 bytes, and a name of 2 bytes below a name of 253
\* bytes a path of 4096 bytes
RootLens == {3839}

A(n) == Rep("a", n)

Txt == <<".", "t", "x", "t">>

\* An entry of the scanned directory.  first, stem and tail spell out the
\* names that collide with its fix: first, then stem_1tail, stem_2tail, ...,
\* or, with None for tail, first and then stem alone.
Entry(name, kind, first, stem, tail) ==
    [name |-> name, kind |-> kind, first |-> first, stem |-> stem, tail |-> tail]

Plain(name, kind) == Entry(name, kind, <<>>, <<>>, <<>>)

TopEntries ==
    << Entry(A(300) \o Txt, "file", A(150), A(150), <<>>),   \* 304 bytes
       Entry(A(255), "file", A(250), A(200), <<>>),          \* exactly 255 bytes
       Plain(A(254), "file"),                                \* exactly 254 bytes
       Plain(A(253), "dir"),                                 \* 253 bytes
       Entry(A(510) \o Txt, "file", A(255), A(200), <<>>),   \* a stem of 510 bytes
       Entry(<<"G4", "a", "b", ".">> \o Rep("x", 260), "file", <<>>, <<>>, <<>>),
       Entry(<<"a", ".">> \o Rep("x", 260), "file",          \* a stem of one byte
             <<"a", ".">> \o Rep("x", 248), <<"a">>, <<".">> \o Rep("x", 246)),
       Entry(Rep("D2", 150), "dir", Rep("D2", 75), Rep("D2", 75), <<>>),
       Entry(A(255), "dir", A(250), A(200), <<>>),           \* exactly 255 bytes
       Entry(Rep("D2", 255), "dir", Rep("D2", 127), Rep("D2", 125), None),
       Plain(<<"d">>, "dir") >>

Overlong(e) == count_bytes(e.name) >= 255

\* foo: the first half of the stem of the first entry
Foo == A(150)

\* the k-th taken name beside entry e
Collider(e, k) ==
    IF k = 0 THEN e.first
    ELSE IF e.tail = None THEN e.stem
    ELSE e.stem \o <<"_">> \o Digits(k) \o e.tail

\* the j-th child of a directory: an overlong file, a directory holding an
\* overlong file, further files
Kid(j) ==
    CASE j = 1 -> Plain(A(300) \o Txt, "file")
      [] j = 2 -> Plain(<<"s", "d">>, "dir")
      [] OTHER -> Plain(<<"k">> \o Digits(j), "file")

GrandKid == A(260)

Node(kind, id, readable) == [kind |-> kind, id |-> id, readable |-> readable]

\* The tree with entry t of TopEntries (none when t = 0), its first nKids
\* children when it is a directory, nColl taken names beside it, and the
\* directory named by unread ("top": the entry, "sub": its child directory)
\* unreadable.
Tree(t, nKids, nColl, unread) ==
    LET tops == {<<TopEntries[i].name>> : i \in {t} \ {0}}
        kids == {<<TopEntries[i].name, Kid(j).name>> : i \in {t} \ {0}, j \in 1..nKids}
        kidOf(p) == CHOOSE j \in 1..nKids : Kid(j).name = p[2]
        grand == {Append(p, GrandKid) : p \in {q \in kids : Kid(kidOf(q)).kind = "dir"}}
        taken == {k \in 0..(nColl - 1) : Collider(TopEntries[t], k) # <<>>}
        colls == {<<Collider(TopEntries[t], k)>> : k \in taken}
        collOf(p) == CHOOSE k \in taken : <<Collider(TopEntries[t], k)>> = p
    IN  [p \in {Root} \cup tops \cup kids \cup grand \cup colls |->
            IF p = Root THEN Node("dir", 0, TRUE)
            ELSE IF p \in tops THEN Node(TopEntries[t].kind, 1, unread # "top")
            ELSE IF p \in colls
                 THEN Node(IF collOf(p) % 2 = 0 THEN "dir" ELSE "file", 20 + collOf(p), TRUE)
            ELSE IF p \in kids
                 THEN Node(Kid(kidOf(p)).kind, 100 + kidOf(p), unread # "sub")
            ELSE Node("file", 150, TRUE)]

FxIdle ==
    [stage |-> "idle", type |-> "", path |-> Root, parent_dir |-> Root,
     original_name |-> <<>>, part1 |-> <<>>, part2 |-> <<>>, loop |-> "",
     base |-> Root, desired |-> <<>>, with_suffix |-> FALSE, target |-> Root,
     first |-> Root, counter |-> 0, new_dir |-> Root, items |-> <<>>]

Init ==
    \E t \in 0..Len(TopEntries), nKids \in 0..MaxKids, nColl \in 0..MaxColl :
    \E unread \in {"none", "top", "sub"}, rl \in RootLens :
        /\ nKids > 0 => t > 0 /\ TopEntries[t].kind = "dir"
        /\ nColl > 0 => t > 0 /\ Overlong(TopEntries[t])
        /\ unread = "top" => nKids > 0
        /\ unread = "sub" => nKids >= 2
        /\ fs = Tree(t, nKids, nColl, unread)
        /\ rootLen = rl
        /\ pc = "start"
        /\ problems = <<>>
        /\ total = 0
        /\ scanErrors = {}
        /\ queue = <<>>
        /\ idx = 1
        /\ fixed_count = 0
        /\ results = <<>>
        /\ fx = FxIdle
        /\ pre = fs
        /\ nextId = 1000
        /\ faults = 0

(***************************************************************************)
(* The programs                                                            *)
(***************************************************************************)

IsName(v) == v.type \in {"FILE_NAME", "DIR_NAME"}

IsPath(v) == v.type \in {"FILE_PATH", "DIR_PATH"}

\* too-long-for-linux-edit.py, main: one scan
ScanEdit ==
    /\ pc = "start"
    /\ LET r == scan_directory_edit(fs, rootLen)
       IN  problems' = r.problems /\ total' = r.current_count
    /\ scanErrors' = {}
    /\ pc' = "edit_done"
    /\ UNCHANGED <<fs, rootLen, queue, idx, fixed_count, results, fx, pre, nextId, faults>>

\* too-long-for-linux.py, main: the first scan
Scan ==
    /\ pc = "start"
    /\ LET r == scan_directory(fs, rootLen)
       IN  problems' = r.problems /\ total' = r.current_count
    /\ scanErrors' = {}
    /\ pc' = "scanned"
    /\ UNCHANGED <<fs, rootLen, queue, idx, fixed_count, results, fx, pre, nextId, faults>>

\* apply_fixes: the name problems, in the order of the scan
ApplyFixes ==
    /\ pc = "scanned"
    /\ queue' = SelectSeq(problems, IsName)
    /\ idx' = 1
    /\ fixed_count' = 0
    /\ results' = <<>>
    /\ pc' = "batch"
    /\ UNCHANGED <<fs, rootLen, problems, total, scanErrors, fx, pre, nextId, faults>>

\* a caller hands a path violation of the scan to fix_long_name (apply_fixes
\* hands it the name violations only)
CallFix ==
    /\ pc = "scanned"
    /\ \E i \in 1..Len(problems) : IsPath(problems[i]) /\ queue' = <<problems[i]>>
    /\ idx' = 1
    /\ fixed_count' = 0
    /\ results' = <<>>
    /\ pc' = "single"
    /\ UNCHANGED <<fs, rootLen, problems, total, scanErrors, fx, pre, nextId, faults>>

\* The first candidate of create_safe_directory(base_path, desired_name)
FirstSafeName(desired_name) ==
    IF count_bytes(desired_name) > MaxLength
    THEN safe_truncate(desired_name, TruncateLength)
    ELSE desired_name

\* The locals at the head of the one loop of _fix_file_simple or
\* _fix_directory_simple
SimpleLoop(v, with_suffix) ==
    [FxIdle EXCEPT !.stage = "loop", !.type = v.type, !.path = v.path,
        !.parent_dir = Parent(v.path), !.original_name = Name(v.path),
        !.part1 = safe_truncate(Name(v.path), TruncateLength), !.part2 = None,
        !.loop = "leaf", !.base = Parent(v.path), !.desired = Name(v.path),
        !.with_suffix = with_suffix,
        !.target = Join(Parent(v.path), safe_truncate(Name(v.path), TruncateLength)),
        !.first = Join(Parent(v.path), safe_truncate(Name(v.path), TruncateLength)),
        !.counter = 1]

\* The locals at the head of the loop of create_safe_directory, called first
\* by _fix_file_split and _fix_directory_split
SplitLoop(v, parts) ==
    [FxIdle EXCEPT !.stage = "loop", !.type = v.type, !.path = v.path,
        !.parent_dir = Parent(v.path), !.original_name = Name(v.path),
        !.part1 = parts[1], !.part2 = parts[2],
        !.loop = "csd", !.base = Parent(v.path), !.desired = parts[1],
        !.with_suffix = FALSE,
        !.target = Join(Parent(v.path), FirstSafeName(parts[1])),
        !.first = Join(Parent(v.path), FirstSafeName(parts[1])),
        !.counter = 1]

\* fix_long_name up to the first loop of the fix it chooses; for a type that
\* is neither FILE_NAME nor DIR_NAME it returns a string at once
fix_long_name(v) ==
    IF v.type = "FILE_NAME"
    THEN LET parts == split_filename(Name(v.path))
         IN  IF parts[2] = None THEN SimpleLoop(v, TRUE) ELSE SplitLoop(v, parts)
    ELSE IF v.type = "DIR_NAME"
    THEN LET parts == split_directory_name(Name(v.path))
         IN  IF parts[2] = None THEN SimpleLoop(v, FALSE) ELSE SplitLoop(v, parts)
    ELSE [FxIdle EXCEPT !.stage = "returned", !.type = v.type, !.path = v.path]

BeginFix ==
    /\ pc \in {"batch", "single"}
    /\ fx.stage = "idle"
    /\ idx <= Len(queue)
    /\ fx' = fix_long_name(queue[idx])
    /\ pre' = fs
    /\ UNCHANGED <<fs, rootLen, pc, problems, total, scanErrors, queue, idx,
                   fixed_count, results, nextId, faults>>

\* while full_path.exists(): the next numbered candidate
LoopStep ==
    /\ fx.stage = "loop"
    /\ pc \in {"batch", "single"}
    /\ exists(fs, fx.target)
    /\ fx.counter <= MaxCounter
    /\ fx' = [fx EXCEPT
                !.target = Join(fx.base, Candidate(fx.desired, fx.counter, fx.with_suffix)),
                !.counter = fx.counter + 1]
    /\ UNCHANGED <<fs, rootLen, pc, problems, total, scanErrors, queue, idx,
                   fixed_count, results, pre, nextId, faults>>

\* the loop ends at a candidate that does not exist
LoopExit ==
    /\ fx.stage = "loop"
    /\ pc \in {"batch", "single"}
    /\ ~exists(fs, fx.target)
    /\ fx' = [fx EXCEPT !.stage = "allocated"]
    /\ UNCHANGED <<fs, rootLen, pc, problems, total, scanErrors, queue, idx,
                   fixed_count, results, pre, nextId, faults>>

\* whether the operating system refuses the next operation
OsErrors == IF faults < MaxFaults THEN BOOLEAN ELSE {FALSE}

\* create_safe_directory: full_path.mkdir(parents=True, exist_ok=True), then
\* the head of the caller's loop for the second half
CsdMkdir ==
    /\ fx.stage = "allocated" /\ fx.loop = "csd"
    /\ pc \in {"batch", "single"}
    /\ \E os_error \in OsErrors :
        /\ faults' = IF os_error THEN faults + 1 ELSE faults
        /\ IF os_error \/ mkdir_fails(fs, fx.target)
           THEN /\ fx' = [fx EXCEPT !.stage = "raised"]
                /\ UNCHANGED <<fs, nextId>>
           ELSE /\ fs' = mkdir_parents(fs, fx.target, nextId)
                /\ nextId' = nextId + 10
                /\ fx' = [fx EXCEPT !.stage = "loop", !.loop = "leaf",
                             !.new_dir = fx.target, !.base = fx.target,
                             !.desired = fx.part2,
                             !.with_suffix = (fx.type = "FILE_NAME"),
                             !.target = Join(fx.target, fx.part2),
                             !.first = Join(fx.target, fx.part2),
                             !.counter = 1]
    /\ UNCHANGED <<rootLen, pc, problems, total, scanErrors, queue, idx,
                   fixed_count, results, pre>>

\* _fix_file_simple, _fix_file_split: shutil.move(str(path), str(new_file_path))
FileMove ==
    /\ fx.stage = "allocated" /\ fx.loop = "leaf" /\ fx.type = "FILE_NAME"
    /\ pc \in {"batch", "single"}
    /\ \E os_error \in OsErrors :
        /\ faults' = IF os_error THEN faults + 1 ELSE faults
        /\ IF os_error \/ move_fails(fs, fx.path, fx.target)
           THEN /\ fx' = [fx EXCEPT !.stage = "raised"]
                /\ UNCHANGED fs
           ELSE /\ fs' = shutil_move(fs, fx.path, fx.target)
                /\ fx' = [fx EXCEPT !.stage = "returned"]
    /\ UNCHANGED <<rootLen, pc, problems, total, scanErrors, queue, idx,
                   fixed_count, results, pre, nextId>>

\* _fix_directory_simple, _fix_directory_split:
\* new_dir_path.mkdir(parents=True, exist_ok=True), then path.iterdir()
DirMkdir ==
    /\ fx.stage = "allocated" /\ fx.loop = "leaf" /\ fx.type = "DIR_NAME"
    /\ pc \in {"batch", "single"}
    /\ \E os_error \in OsErrors :
        /\ faults' = IF os_error THEN faults + 1 ELSE faults
        /\ IF os_error \/ mkdir_fails(fs, fx.target)
           THEN /\ fx' = [fx EXCEPT !.stage = "raised"]
                /\ UNCHANGED <<fs, nextId>>
           ELSE /\ fs' = mkdir_parents(fs, fx.target, nextId)
                /\ nextId' = nextId + 10
                /\ fx' = IF iterdir_fails(fs', fx.path)
                         THEN [fx EXCEPT !.stage = "raised"]
                         ELSE [fx EXCEPT !.stage = "items",
                                         !.items = iterdir(fs', fx.path)]
    /\ UNCHANGED <<rootLen, pc, problems, total, scanErrors, queue, idx,
                   fixed_count, results, pre>>

\* for item in path.iterdir(): shutil.move(str(item), str(new_dir_path / item.name))
MoveItem ==
    /\ fx.stage = "items" /\ fx.items # <<>>
    /\ pc \in {"batch", "single"}
    /\ LET item == Head(fx.items)
           dst == Join(fx.target, Name(item))
       IN  \E os_error \in OsErrors :
            /\ faults' = IF os_error THEN faults + 1 ELSE faults
            /\ IF os_error \/ move_fails(fs, item, dst)
               THEN /\ fx' = [fx EXCEPT !.stage = "raised"]
                    /\ UNCHANGED fs
               ELSE /\ fs' = shutil_move(fs, item, dst)
                    /\ fx' = [fx EXCEPT !.items = Tail(fx.items)]
    /\ UNCHANGED <<rootLen, pc, problems, total, scanErrors, queue, idx,
                   fixed_count, results, pre, nextId>>

\* with contextlib.suppress(OSError): path.rmdir(), and the return
Rmdir ==
    /\ fx.stage = "items" /\ fx.items = <<>>
    /\ pc \in {"batch", "single"}
    /\ fs' = rmdir_suppressed(fs, fx.path)
    /\ fx' = [fx EXCEPT !.stage = "returned"]
    /\ UNCHANGED <<rootLen, pc, problems, total, scanErrors, queue, idx,
                   fixed_count, results, pre, nextId, faults>>

\* what apply_fixes prints for the call: the result or the error; missing
\* notes that the source path did not exist when the call began
Outcome(f) ==
    [type |-> f.type, path |-> f.path, outcome |-> f.stage,
     missing |-> f.path \notin DOMAIN pre]

\* a slip: the first error ends the loop of apply_fixes
EndFixAborts ==
    /\ fx.stage \in {"returned", "raised"}
    /\ pc \in {"batch", "single"}
    /\ results' = Append(results, Outcome(fx))
    /\ fixed_count' = IF pc = "batch" /\ fx.stage = "returned"
                      THEN fixed_count + 1 ELSE fixed_count
    /\ idx' = IF fx.stage = "raised" THEN Len(queue) + 1 ELSE idx + 1
    /\ fx' = FxIdle
    /\ UNCHANGED <<fs, rootLen, pc, problems, total, scanErrors, queue, pre, nextId, faults>>

\* apply_fixes: a call that returns is counted, an OSError, shutil.Error or
\* ValueError is printed, and the loop goes on to the next violation
EndFix ==
    /\ fx.stage \in {"returned", "raised"}
    /\ pc \in {"batch", "single"}
    /\ results' = Append(results, Outcome(fx))
    /\ fixed_count' = IF pc = "batch" /\ fx.stage = "returned"
                      THEN fixed_count + 1 ELSE fixed_count
    /\ idx' = idx + 1
    /\ fx' = FxIdle
    /\ UNCHANGED <<fs, rootLen, pc, problems, total, scanErrors, queue, pre, nextId, faults>>

\* main: the scan after apply_fixes
Rescan ==
    /\ pc = "batch"
    /\ fx.stage = "idle"
    /\ idx > Len(queue)
    /\ LET r == scan_directory(fs, rootLen)
       IN  problems' = r.problems /\ total' = r.current_count
    /\ scanErrors' = {}
    /\ pc' = "done"
    /\ UNCHANGED <<fs, rootLen, queue, idx, fixed_count, results, fx, pre, nextId, faults>>

\* KeyboardInterrupt while a fix is in progress ends the program
Interrupt ==
    /\ pc \in {"batch", "single"}
    /\ fx.stage \in {"allocated", "items"}
    /\ pc' = "interrupted"
    /\ UNCHANGED <<fs, rootLen, problems, total, scanErrors, queue, idx,
                   fixed_count, results, fx, pre, nextId, faults>>

Next ==
    \/ ScanEdit
    \/ Scan
    \/ ApplyFixes
    \/ CallFix
    \/ BeginFix
    \/ LoopStep
    \/ LoopExit
    \/ CsdMkdir
    \/ FileMove
    \/ DirMkdir
    \/ MoveItem
    \/ Rmdir
    \/ EndFix
    \/ Rescan
    \/ Interrupt

Spec == Init /\ [][Next]_vars

(***************************************************************************)
(* Properties                                                              *)
(***************************************************************************)

Ids(f) == {f[p].id : p \in DOMAIN f}

PathOfId(f, id) == {p \in DOMAIN f : f[p].id = id}

\* a scan has just run over the tree fs
Scanned == pc \in {"scanned", "edit_done", "done"}

Recorded(types, p) == \E k \in 1..Len(problems) : problems[k].type \in types /\ problems[k].path = p

\* the name problems and the path problems the spec asks for, for one entry
NameRecordOk(p, isdir) ==
    /\ Recorded({IF isdir THEN "DIR_NAME" ELSE "FILE_NAME"}, p) <=> count_bytes(Name(p)) >= 255
    /\ ~Recorded({IF isdir THEN "FILE_NAME" ELSE "DIR_NAME"}, p)

PathRecordOk(p, isdir) ==
    /\ Recorded({IF isdir THEN "DIR_PATH" ELSE "FILE_PATH"}, p) <=> PathBytes(rootLen, p) >= 4096
    /\ ~Recorded({IF isdir THEN "FILE_PATH" ELSE "DIR_PATH"}, p)

\* C1: after a scan by either program, every visited entry has a name
\* problem exactly when its name has 255 bytes or more and a path problem
\* exactly when its path has 4096 bytes or more, files and directories alike.
C1_ScanBoundaries ==
    Scanned =>
        \A e \in {Walk(fs, Root)[i] : i \in 1..Len(Walk(fs, Root))} :
            NameRecordOk(e[1], e[2]) /\ PathRecordOk(e[1], e[2])

\* C1, for too-long-for-linux.py alone (the scans of main): it holds there.
C1_ScanBoundariesMain ==
    pc \in {"scanned", "done"} =>
        \A e \in {Walk(fs, Root)[i] : i \in 1..Len(Walk(fs, Root))} :
            NameRecordOk(e[1], e[2]) /\ PathRecordOk(e[1], e[2])

\* a fix_long_name call for a name violation has just returned
FixReturned == fx.stage = "returned" /\ IsName(fx)

\* the directories the call in progress has created
Created == {p \in DOMAIN fs : fs[p].id \notin Ids(pre)}

\* the file the call in progress was handed, where it is now
Leaf == IF fx.path \in DOMAIN pre /\ fx.type = "FILE_NAME"
        THEN PathOfId(fs, pre[fx.path].id) ELSE {}

\* C2: when a fix of a name violation has returned, the directories it
\* created and the file it moved or renamed have names of fewer than 255 bytes.
C2_FixedNamesComply ==
    FixReturned => \A p \in Created \cup Leaf : count_bytes(Name(p)) < 255

\* a fix of a directory name is in progress or has just ended
DirFix == fx.type = "DIR_NAME" /\ fx.stage # "idle" /\ fx.path \in DOMAIN pre

\* what the directory held when the fix began
Held == {p \in DOMAIN pre : IsPrefix(fx.path, p) /\ p # fx.path}

\* where an entry the directory held may be: where it was, or at the same
\* place below the new directory once that one is allocated
Places(p) ==
    {p} \cup (IF fx.loop = "leaf"
              THEN {fx.target \o SubSeq(p, Len(fx.path) + 1, Len(p))}
              ELSE {})

\* every entry the directory held is at exactly one place, the old or the new
HeldOnce ==
    DirFix =>
        \A p \in Held :
            /\ Cardinality(PathOfId(fs, pre[p].id)) = 1
            /\ PathOfId(fs, pre[p].id) \subseteq Places(p)

\* after the fix has returned every entry it held is below the new directory
HeldMoved ==
    DirFix /\ fx.stage = "returned" =>
        \A p \in Held :
            PathOfId(fs, pre[p].id) = {fx.target \o SubSeq(p, Len(fx.path) + 1, Len(p))}

\* a step removes a directory from the tree only when it is empty
RemovedWhenEmpty ==
    \A p \in DOMAIN fs :
        fs[p].kind = "dir" /\ fs[p].id \notin Ids(fs') => Children(fs, p) = {}

C3_WitnessPartial ==
    /\ DirFix /\ (fx.stage = "raised" \/ pc = "interrupted")
    /\ \E p, q \in Held : p \in DOMAIN fs /\ q \notin DOMAIN fs

\* The names an allocation loop has passed over at counter c
Passed ==
    IF fx.counter <= 1 THEN {}
    ELSE {fx.first} \cup
         {Join(fx.base, Candidate(fx.desired, j, fx.with_suffix)) : j \in 1..(fx.counter - 2)}

\* C4: an allocation passes over a name only when it is taken, in the order
\* desired name, _1, _2, ...; the name it ends at is not in the directory;
\* and no entry that was in the tree when the fix began is replaced: each is
\* still there, but for the emptied original directory.
C4_AllocationSafe ==
    /\ fx.stage \in {"loop", "allocated"} =>
          /\ Passed \subseteq DOMAIN fs
          /\ fx.target = IF fx.counter = 1 THEN fx.first
                         ELSE Join(fx.base, Candidate(fx.desired, fx.counter - 1, fx.with_suffix))
    /\ fx.stage = "allocated" => fx.target \notin DOMAIN fs
    /\ fx.stage # "idle" =>
          \A p \in DOMAIN pre :
              pre[p].id \in Ids(fs) \/ (p = fx.path /\ fx.type = "DIR_NAME")

\* C4 witness: with foo, foo_1 and foo_2 taken the allocation ends at foo_3
C4_Witness ==
    /\ fx.stage = "allocated"
    /\ fx.desired = Foo
    /\ {<<Foo>>, <<Foo \o <<"_", "1">>>>, <<Foo \o <<"_", "2">>>>} \subseteq DOMAIN fs
    /\ fx.target = <<Foo \o <<"_", "3">>>>

\* C5: a call of fix_long_name for a path violation ends in an error, never
\* in a normal return, and leaves the tree as it was.
C5_PathFixRefused ==
    IsPath(fx) /\ fx.stage # "idle" => fx.stage = "raised" /\ fs = pre

\* C5, what does hold: the call changes nothing in the tree.
C5_PathFixChangesNothing == IsPath(fx) /\ fx.stage # "idle" => fs = pre

Returned == {i \in 1..Len(results) : results[i].outcome = "returned"}

\* C6: in apply_fixes every finished call has its own outcome, in the order
\* of the name violations; a call whose source path no longer existed ended
\* in an error; only calls that returned are counted as fixed; and when the
\* batch is over every name violation has been attempted, whatever failed.
C6_BatchGoesOn ==
    pc \in {"batch", "done", "interrupted"} =>
        /\ Len(results) = idx - 1
        /\ Len(results) <= Len(queue)
        /\ \A i \in 1..Len(results) :
              /\ results[i].path = queue[i].path
              /\ results[i].type = queue[i].type
              /\ results[i].missing => results[i].outcome = "raised"
        /\ fixed_count = Cardinality(Returned)
        /\ pc = "done" => Len(results) = Len(queue)

\* C6 witness: the batch is over; a fix whose source had been moved away by
\* an earlier fix failed, and a later one was still attempted
C6_Witness ==
    /\ pc = "done"
    /\ \E i, j, k \in 1..Len(results) :
          /\ i < j /\ j < k
          /\ results[i].outcome = "returned"
          /\ results[j].missing /\ results[j].outcome = "raised"
    /\ fixed_count < Len(queue)

\* C7: after a scan of main every visited directory that cannot be read has
\* been reported.
C7_UnreadableReported ==
    pc \in {"scanned", "done"} =>
        \A e \in {Walk(fs, Root)[i] : i \in 1..Len(Walk(fs, Root))} :
            e[2] /\ ~fs[e[1]].readable => e[1] \in scanErrors

\* C7, what does hold: the entries beside an unreadable directory are scanned.
C7_SiblingsScanned ==
    pc \in {"scanned", "done"} =>
        \A p \in DOMAIN fs \ {Root} :
            (\A a \in Ancestors(Parent(p)) : fs[a].readable)
                => NameRecordOk(p, fs[p].kind = "dir")

\* the base part fix_long_name splits: the stem of a file, the name of a directory
BasePart(f) == IF f.type = "FILE_NAME" THEN PathStem(f.original_name) ELSE f.original_name

SuffixPart(f) == IF f.type = "FILE_NAME" THEN PathSuffix(f.original_name) ELSE <<>>

\* the name has been split in two
WasSplit == fx.stage # "idle" /\ IsName(fx) /\ fx.part2 # None

CutAtBoundary(encoded) ==
    SplitPoint(encoded) = Len(encoded) \/ ~IsContinuation(encoded[SplitPoint(encoded) + 1])

\* C8: the split cuts the base part between two characters, and the two
\* halves, before they are truncated, make up the original name.
C8_SplitKeepsName ==
    WasSplit =>
        /\ CutAtBoundary(encode(BasePart(fx)))
        /\ RawHalves(BasePart(fx), SuffixPart(fx))[1]
              \o RawHalves(BasePart(fx), SuffixPart(fx))[2] = fx.original_name

\* C8, what does hold: the split is clean for every name whose first
\* character ends at or before the middle byte of the base part.
C8_SplitKeepsNameUnlessFallback ==
    WasSplit /\ BackToBoundary(encode(BasePart(fx)), Len(encode(BasePart(fx))) \div 2) > 0
        => /\ CutAtBoundary(encode(BasePart(fx)))
           /\ RawHalves(BasePart(fx), SuffixPart(fx))[1]
                 \o RawHalves(BasePart(fx), SuffixPart(fx))[2] = fx.original_name

\* the entries the call was not handed: all but the entry at fx.path and
\* what it holds
Others == {p \in DOMAIN pre : ~IsPrefix(fx.path, p)}

\* C9: a fix that has returned has created at most one directory, has left
\* every entry it was not handed where it was, and has removed nothing but
\* the emptied original directory.
C9_OneDirectoryOneMove ==
    FixReturned =>
        /\ Cardinality(Created) <= 1
        /\ \A p \in Others : p \in DOMAIN fs /\ fs[p] = pre[p]
        /\ \A p \in DOMAIN pre :
              pre[p].id \in Ids(fs) \/ (p = fx.path /\ fx.type = "DIR_NAME")

\* C9, what does hold: the same with at most two directories created.
C9_FrameTwoDirectories ==
    FixReturned =>
        /\ Cardinality(Created) <= 2
        /\ \A p \in Others : p \in DOMAIN fs /\ fs[p] = pre[p]
        /\ \A p \in DOMAIN pre :
              pre[p].id \in Ids(fs) \/ (p = fx.path /\ fx.type = "DIR_NAME")

\* C10: a fix of a name of 255 bytes or more truncates in place exactly when
\* the base part has at most one byte, and splits otherwise.
C10_TruncateOnlyShortBase ==
    fx.stage # "idle" /\ IsName(fx) /\ count_bytes(fx.original_name) >= 255 =>
        (fx.part2 = None <=> count_bytes(BasePart(fx)) <= 1)

\* C10, what does hold: the same for names of more than 255 bytes.
C10_TruncateOnlyShortBaseOver255 ==
    fx.stage # "idle" /\ IsName(fx) /\ count_bytes(fx.original_name) > 255 =>
        (fx.part2 = None <=> count_bytes(BasePart(fx)) <= 1)

\* C11: the candidates of an allocation are pairwise distinct after
\* truncation: the loop never comes to a name it has passed over before, so
\* that in a finite directory it ends after finitely many steps.
C11_CandidatesDistinct ==
    fx.stage \in {"loop", "allocated"} => fx.target \notin Passed

\* the numbered candidate before truncation
RawCandidate(name, counter, with_suffix) ==
    Chars(PathStem(name), StemChars) \o <<"_">> \o Digits(counter)
        \o (IF with_suffix THEN PathSuffix(name) ELSE <<>>)

\* C11, what does hold: the same while no candidate needed truncation.
C11_CandidatesDistinctUntruncated ==
    /\ fx.stage \in {"loop", "allocated"}
    /\ \A j \in 1..(fx.counter - 1) :
           count_bytes(RawCandidate(fx.desired, j, fx.with_suffix)) <= 255
    => fx.target \notin Passed

\* a fix whose source path was gone when it began, ended in an error
StaleFixFailed == fx.stage = "raised" /\ IsName(fx) /\ fx.path \notin DOMAIN pre

\* C12: a fix that fails because its source path no longer exists leaves
\* the tree exactly as it was before the call: no directory is created, the
\* removed original directory and the directories inside it included.
C12_StaleFixChangesNothing == StaleFixFailed => fs = pre

\* C12, what does hold: the same for a stale fix that truncates in place.
C12_StaleSimpleFixChangesNothing ==
    StaleFixFailed /\ fx.part2 = None => fs = pre

\* C12, what does hold: a stale fix only adds directories, and they are empty.
C12_StaleFixOnlyAddsEmptyDirectories ==
    StaleFixFailed =>
        /\ \A p \in DOMAIN pre : p \in DOMAIN fs /\ fs[p] = pre[p]
        /\ \A p \in DOMAIN fs \ DOMAIN pre :
              /\ fs[p].kind = "dir"
              /\ \A q \in DOMAIN fs : IsPrefix(p, q) => fs[q].kind = "dir"

====
